---- MODULE Spec2Model ----
(***************************************************************************)
(* The two-player oscillator / synchronisation engine of src/wave2.py      *)
(* (PlayerState and MuseumSyncGame.update / on_key_press).                 *)
(*                                                                         *)
(* The program computes in floating point; the model computes in fixed     *)
(* point:                                                                  *)
(*   time       1 unit = 0.05 s   (every time constant of the source is a  *)
(*                                 whole number of units)                  *)
(*   angle      1 unit = 0.01 rad (PI = 314, one turn = 628)               *)
(*   position   1 unit = 0.001    (One = 1000 is the float 1.0)            *)
(*   frequency  1 unit = 0.001 Hz                                          *)
(*   speed      angle units per second                                    *)
(*   trail x    1 unit = 0.001 of the window width; a trail point holds    *)
(*              y_norm, of which its pixel height is an affine image       *)
(* Rendering state (shapes, labels, pulse rings and their timers) does not *)
(* feed back into the oscillators or the sync timer and is left out; the   *)
(* trail of each player (PlayerState.points) is part of the oscillator.    *)
(***************************************************************************)
EXTENDS Integers, Sequences, FiniteSets, TLC

\* ---------------------------------------------------------------- constants
SYNC_DURATION == 100
INPUT_DELAY == 40
IDLE_RESET_TIME == 80
IDLE_RETURN_SPEED == 400
IDLE_WAVE_SETTLE == 24
SYNC_FREQ_TOLERANCE == 100
SYNC_PHASE_TOLERANCE == 20
SETTLE_DURATION == 11
GAP_MIN == 1
GAP_MAX == 100
ACTIVE_FREQ == 50
PI == 314
One == 1000
\* WAVE_WIDTH_PERCENT and the 0.22 of WAVE_SPEED, in thousandths of the
\* window width (per second, for the speed)
WAVE_AREA_W == 650
WAVE_SPEED == 220

\* INPUT_DELAY is 2 seconds in the source, which fixes the model's second.
Second == INPUT_DELAY \div 2
TWO_PI == 2 * PI
\* None, for a time that is not set (times are never negative).
NoTime == 0 - 1

\* ------------------------------------------------------------------- bounds
\* frames (calls of MuseumSyncGame.update) in one run
MaxTicks == 4
\* key presses in one run, both players together
MaxPresses == 4
\* the wall-clock time at which a scripted run ends
MaxTime == 260

Players == {1, 2}
Signals == {"u", "d"}
\* (dt, advance of the wall clock) of one frame; dt comes from the scheduler
\* and now from time.time(), so the two are separate inputs.
\* <<10, 10>> an ordinary (slow) frame, <<10, 45>> a frame after a stall of the
\* process, <<100, 0>> a frame whose dt is long although the clock read the same.
Frames == {<<10, 10>>, <<10, 45>>, <<100, 0>>}

\* ------------------------------------------------------------ arithmetic
Abs(x) == IF x < 0 THEN 0 - x ELSE x
Min(a, b) == IF a <= b THEN a ELSE b
Max(a, b) == IF a >= b THEN a ELSE b
Sign(x) == IF x < 0 THEN 0 - 1 ELSE 1
\* a / b rounded toward zero, as a float quotient loses its low digits
Quot(a, b) == Sign(a) * Sign(b) * (Abs(a) \div Abs(b))
\* product of two position-scaled numbers
Mul(a, b) == Quot(a * b, One)

\* math.cos on [0, PI] (Bhaskara's rational form, exact at 0, PI/2 and PI)
CosLow(a) == Quot(One * (PI * PI - 4 * a * a), PI * PI + a * a)
Cos(a) == IF 2 * a <= PI THEN CosLow(a) ELSE 0 - CosLow(PI - a)

\* math.acos: the least angle of [lo, hi] whose cosine is <= c
RECURSIVE AcosSearch(_, _, _)
AcosSearch(lo, hi, c) ==
    IF lo >= hi THEN lo
    ELSE LET mid == (lo + hi) \div 2
         IN  IF Cos(mid) <= c THEN AcosSearch(lo, mid, c)
             ELSE AcosSearch(mid + 1, hi, c)
Acos(c) == AcosSearch(0, PI, c)

\* Python's round(n / d): to the nearest integer, a tie to the even one
Round(n, d) ==
    LET q == n \div d
        r == n % d
    IN  IF 2 * r < d THEN q
        ELSE IF 2 * r > d THEN q + 1
        ELSE IF q % 2 = 0 THEN q ELSE q + 1

\* FreqOf without the factor 2: 1.0 / gap
FreqOf_FullPeriod(gap) == (One * Second) \div gap

\* 1.0 / (gap * 2), in mHz
FreqOf(gap) == (One * Second) \div (gap * 2)
\* math.pi / half_period, in angle units per second
SpeedOf(half_period) == (PI * Second) \div half_period
\* speed * dt, in angle units
Travel(speed, dt) == (speed * dt) \div Second

\* ------------------------------------------------------------------- state
VARIABLES
    p1,          \* MuseumSyncGame.p1, a PlayerState
    p2,          \* MuseumSyncGame.p2, a PlayerState
    sync_timer,  \* MuseumSyncGame.sync_timer
    now,         \* the last value read from time.time()
    op,          \* the handler that ran last: "init", "update", or a key press
                 \* of player n: "key<n>" (queued) or "dup<n>" (suppressed)
    dt,          \* the dt of the last update
    ticks,       \* number of updates so far
    presses,     \* number of key presses so far
    pressed,     \* per player, the key of the last press ("none" before the first)
    plan         \* the input schedule of a scripted run (Free in an unscripted one)

vars == <<p1, p2, sync_timer, now, op, dt, ticks, presses, pressed, plan>>

\* PlayerState.__init__
NewPlayer(t) ==
    [ last_signal      |-> "none",
      last_input_time  |-> t,
      signal_queue     |-> <<>>,
      points           |-> <<>>,
      direction        |-> 1,
      half_period      |-> Second,
      cycle_active     |-> FALSE,
      prev_accept_time |-> NoTime,
      cos_angle        |-> PI \div 2,
      cos_dir          |-> 1,
      cos_speed        |-> 0,
      settling         |-> FALSE,
      settle_start     |-> t,
      settle_from_y    |-> 0,
      ever_had_input   |-> FALSE,
      frequency        |-> 0,
      phase            |-> 0,
      y_norm           |-> 0,
      arrow_angle      |-> 0,
      arrow_speed      |-> 0,
      display_angle    |-> 0,
      idle_returning   |-> FALSE,
      idle_wave_from   |-> 0,
      idle_wave_t      |-> 0 ]

\* ------------------------------------------------- PlayerState.queue_signal
DirOf(signal) == IF signal = "u" THEN 1 ELSE 0 - 1

\* queue_signal cancelling an idle return as soon as a new key is queued
queue_signal_Cancels(s, signal, current_time) ==
    IF signal = s.last_signal THEN s
    ELSE [s EXCEPT !.last_signal = signal,
                   !.last_input_time = current_time,
                   !.idle_returning = FALSE,
                   !.signal_queue = Append(s.signal_queue,
                                           <<current_time + INPUT_DELAY, DirOf(signal)>>)]

\* queue_signal without the comparison with last_signal
queue_signal_NoCheck(s, signal, current_time) ==
    [s EXCEPT !.last_signal = signal,
              !.last_input_time = current_time,
              !.signal_queue = Append(s.signal_queue,
                                      <<current_time + INPUT_DELAY, DirOf(signal)>>)]

\* queue_signal recording the time of a repeated key before it returns
queue_signal_Touch(s, signal, current_time) ==
    IF signal = s.last_signal THEN [s EXCEPT !.last_input_time = current_time]
    ELSE [s EXCEPT !.last_signal = signal,
                   !.last_input_time = current_time,
                   !.signal_queue = Append(s.signal_queue,
                                           <<current_time + INPUT_DELAY, DirOf(signal)>>)]

\* queue_signal putting the new entry at the head of the queue (appendleft)
queue_signal_Front(s, signal, current_time) ==
    IF signal = s.last_signal THEN s
    ELSE [s EXCEPT !.last_signal = signal,
                   !.last_input_time = current_time,
                   !.signal_queue = <<<<current_time + INPUT_DELAY, DirOf(signal)>>>>
                                        \o s.signal_queue]

\* queue_signal leaving last_input_time as it was
queue_signal_NoStamp(s, signal, current_time) ==
    IF signal = s.last_signal THEN s
    ELSE [s EXCEPT !.last_signal = signal,
                   !.signal_queue = Append(s.signal_queue,
                                           <<current_time + INPUT_DELAY, DirOf(signal)>>)]

\* queue_signal marking ever_had_input when it queues a key
queue_signal_Marks(s, signal, current_time) ==
    IF signal = s.last_signal THEN s
    ELSE [s EXCEPT !.last_signal = signal,
                   !.last_input_time = current_time,
                   !.ever_had_input = TRUE,
                   !.signal_queue = Append(s.signal_queue,
                                           <<current_time + INPUT_DELAY, DirOf(signal)>>)]

queue_signal(s, signal, current_time) ==
    IF signal = s.last_signal THEN s
    ELSE [s EXCEPT !.last_signal = signal,
                   !.last_input_time = current_time,
                   !.signal_queue = Append(s.signal_queue,
                                           <<current_time + INPUT_DELAY, DirOf(signal)>>)]

\* ------------------------------------------------------ PlayerState.update
\* max(-1.0, min(1.0, x))
Clamp(x) == Max(0 - One, Min(One, x))

\* GapOK without the upper limit of 5.0 s
GapOK_NoUpper(s, fire_time) ==
    /\ s.prev_accept_time # NoTime
    /\ GAP_MIN < fire_time - s.prev_accept_time

\* GapOK without the lower limit of 0.05 s
GapOK_NoLower(s, fire_time) ==
    /\ s.prev_accept_time # NoTime
    /\ 0 < fire_time - s.prev_accept_time
    /\ fire_time - s.prev_accept_time < GAP_MAX

\* the plausibility test of a measured gap between two accepted inputs
GapOK(s, fire_time) ==
    /\ s.prev_accept_time # NoTime
    /\ GAP_MIN < fire_time - s.prev_accept_time
    /\ fire_time - s.prev_accept_time < GAP_MAX

\* Accept measuring the frequency only while there is none yet
Accept_StaleFrequency(s) ==
    LET fire_time == Head(s.signal_queue)[1]
        direction == Head(s.signal_queue)[2]
        gap       == fire_time - s.prev_accept_time
        hp        == IF GapOK(s, fire_time) THEN gap ELSE s.half_period
    IN  [s EXCEPT !.signal_queue     = Tail(s.signal_queue),
                  !.half_period      = hp,
                  !.frequency        = IF GapOK(s, fire_time) /\ s.frequency = 0
                                       THEN FreqOf(gap) ELSE s.frequency,
                  !.prev_accept_time = fire_time,
                  !.direction        = direction,
                  !.cycle_active     = TRUE,
                  !.settling         = FALSE,
                  !.ever_had_input   = TRUE,
                  !.idle_returning   = FALSE,
                  !.cos_speed        = SpeedOf(hp),
                  !.cos_angle        = Acos(Clamp(s.y_norm * direction)),
                  !.cos_dir          = 0 - 1,
                  !.arrow_speed      = SpeedOf(hp)]

\* Accept taking the arrow speed from the half_period before this input
Accept_ArrowSpeedStale(s) ==
    LET fire_time == Head(s.signal_queue)[1]
        direction == Head(s.signal_queue)[2]
        gap       == fire_time - s.prev_accept_time
        hp        == IF GapOK(s, fire_time) THEN gap ELSE s.half_period
    IN  [s EXCEPT !.signal_queue     = Tail(s.signal_queue),
                  !.half_period      = hp,
                  !.frequency        = IF GapOK(s, fire_time) THEN FreqOf(gap) ELSE s.frequency,
                  !.prev_accept_time = fire_time,
                  !.direction        = direction,
                  !.cycle_active     = TRUE,
                  !.settling         = FALSE,
                  !.ever_had_input   = TRUE,
                  !.idle_returning   = FALSE,
                  !.cos_speed        = SpeedOf(hp),
                  !.cos_angle        = Acos(Clamp(s.y_norm * direction)),
                  !.cos_dir          = 0 - 1,
                  !.arrow_speed      = SpeedOf(s.half_period)]

\* Accept restarting the wave from the centre line with every accepted input
Accept_FromCentre(s) ==
    LET fire_time == Head(s.signal_queue)[1]
        direction == Head(s.signal_queue)[2]
        gap       == fire_time - s.prev_accept_time
        hp        == IF GapOK(s, fire_time) THEN gap ELSE s.half_period
    IN  [s EXCEPT !.signal_queue     = Tail(s.signal_queue),
                  !.half_period      = hp,
                  !.frequency        = IF GapOK(s, fire_time) THEN FreqOf(gap) ELSE s.frequency,
                  !.prev_accept_time = fire_time,
                  !.direction        = direction,
                  !.cycle_active     = TRUE,
                  !.settling         = FALSE,
                  !.ever_had_input   = TRUE,
                  !.idle_returning   = FALSE,
                  !.cos_speed        = SpeedOf(hp),
                  !.cos_angle        = PI \div 2,
                  !.cos_dir          = 0 - 1,
                  !.arrow_speed      = SpeedOf(hp)]

\* Accept restarting the arrow from 0 with every accepted input
Accept_ResetsArrow(s) ==
    LET fire_time == Head(s.signal_queue)[1]
        direction == Head(s.signal_queue)[2]
        gap       == fire_time - s.prev_accept_time
        hp        == IF GapOK(s, fire_time) THEN gap ELSE s.half_period
    IN  [s EXCEPT !.signal_queue     = Tail(s.signal_queue),
                  !.half_period      = hp,
                  !.frequency        = IF GapOK(s, fire_time) THEN FreqOf(gap) ELSE s.frequency,
                  !.prev_accept_time = fire_time,
                  !.direction        = direction,
                  !.cycle_active     = TRUE,
                  !.settling         = FALSE,
                  !.ever_had_input   = TRUE,
                  !.idle_returning   = FALSE,
                  !.cos_speed        = SpeedOf(hp),
                  !.cos_angle        = Acos(Clamp(s.y_norm * direction)),
                  !.cos_dir          = 0 - 1,
                  !.arrow_angle      = 0,
                  !.arrow_speed      = SpeedOf(hp)]

\* Accept leaving an idle return running
Accept_KeepsReturning(s) ==
    LET fire_time == Head(s.signal_queue)[1]
        direction == Head(s.signal_queue)[2]
        gap       == fire_time - s.prev_accept_time
        hp        == IF GapOK(s, fire_time) THEN gap ELSE s.half_period
    IN  [s EXCEPT !.signal_queue     = Tail(s.signal_queue),
                  !.half_period      = hp,
                  !.frequency        = IF GapOK(s, fire_time) THEN FreqOf(gap) ELSE s.frequency,
                  !.prev_accept_time = fire_time,
                  !.direction        = direction,
                  !.cycle_active     = TRUE,
                  !.settling         = FALSE,
                  !.ever_had_input   = TRUE,
                  !.cos_speed        = SpeedOf(hp),
                  !.cos_angle        = Acos(Clamp(s.y_norm * direction)),
                  !.cos_dir          = 0 - 1,
                  !.arrow_speed      = SpeedOf(hp)]

\* one pass of the "fire queued inputs" loop: the head entry is accepted
Accept(s) ==
    LET fire_time == Head(s.signal_queue)[1]
        direction == Head(s.signal_queue)[2]
        gap       == fire_time - s.prev_accept_time
        hp        == IF GapOK(s, fire_time) THEN gap ELSE s.half_period
    IN  [s EXCEPT !.signal_queue     = Tail(s.signal_queue),
                  !.half_period      = hp,
                  !.frequency        = IF GapOK(s, fire_time) THEN FreqOf(gap) ELSE s.frequency,
                  !.prev_accept_time = fire_time,
                  !.direction        = direction,
                  !.cycle_active     = TRUE,
                  !.settling         = FALSE,
                  !.ever_had_input   = TRUE,
                  !.idle_returning   = FALSE,
                  !.cos_speed        = SpeedOf(hp),
                  !.cos_angle        = Acos(Clamp(s.y_norm * direction)),
                  !.cos_dir          = 0 - 1,
                  !.arrow_speed      = SpeedOf(hp)]

\* FireQueued accepting at most one entry in a frame (if instead of while)
FireQueued_One(s, current_time) ==
    IF s.signal_queue # <<>> /\ current_time >= Head(s.signal_queue)[1]
    THEN Accept(s)
    ELSE s

\* the while loop: every entry whose fire time has come, oldest first
RECURSIVE FireQueued(_, _)
FireQueued(s, current_time) ==
    IF s.signal_queue # <<>> /\ current_time >= Head(s.signal_queue)[1]
    THEN FireQueued(Accept(s), current_time)
    ELSE s

\* BeginIdle putting half_period back to its initial 1.0 s
BeginIdle_ResetsPeriod(s, idle) ==
    IF idle /\ s.ever_had_input /\ ~s.idle_returning
    THEN [s EXCEPT !.idle_returning   = TRUE,
                   !.idle_wave_from   = s.y_norm,
                   !.idle_wave_t      = 0,
                   !.cycle_active     = FALSE,
                   !.settling         = FALSE,
                   !.cos_speed        = 0,
                   !.arrow_speed      = 0,
                   !.frequency        = 0,
                   !.half_period      = Second,
                   !.last_signal      = "none",
                   !.prev_accept_time = NoTime]
    ELSE s

\* BeginIdle without the test of ever_had_input
BeginIdle_Always(s, idle) ==
    IF idle /\ ~s.idle_returning
    THEN [s EXCEPT !.idle_returning   = TRUE,
                   !.idle_wave_from   = s.y_norm,
                   !.idle_wave_t      = 0,
                   !.cycle_active     = FALSE,
                   !.settling         = FALSE,
                   !.cos_speed        = 0,
                   !.arrow_speed      = 0,
                   !.frequency        = 0,
                   !.last_signal      = "none",
                   !.prev_accept_time = NoTime]
    ELSE s

\* BeginIdle leaving prev_accept_time as it was
BeginIdle_KeepsAccept(s, idle) ==
    IF idle /\ s.ever_had_input /\ ~s.idle_returning
    THEN [s EXCEPT !.idle_returning   = TRUE,
                   !.idle_wave_from   = s.y_norm,
                   !.idle_wave_t      = 0,
                   !.cycle_active     = FALSE,
                   !.settling         = FALSE,
                   !.cos_speed        = 0,
                   !.arrow_speed      = 0,
                   !.frequency        = 0,
                   !.last_signal      = "none"]
    ELSE s

\* BeginIdle leaving the measured frequency in place
BeginIdle_KeepsFrequency(s, idle) ==
    IF idle /\ s.ever_had_input /\ ~s.idle_returning
    THEN [s EXCEPT !.idle_returning   = TRUE,
                   !.idle_wave_from   = s.y_norm,
                   !.idle_wave_t      = 0,
                   !.cycle_active     = FALSE,
                   !.settling         = FALSE,
                   !.cos_speed        = 0,
                   !.arrow_speed      = 0,
                   !.last_signal      = "none",
                   !.prev_accept_time = NoTime]
    ELSE s

\* idle: begin return if not already doing so
BeginIdle(s, idle) ==
    IF idle /\ s.ever_had_input /\ ~s.idle_returning
    THEN [s EXCEPT !.idle_returning   = TRUE,
                   !.idle_wave_from   = s.y_norm,
                   !.idle_wave_t      = 0,
                   !.cycle_active     = FALSE,
                   !.settling         = FALSE,
                   !.cos_speed        = 0,
                   !.arrow_speed      = 0,
                   !.frequency        = 0,
                   !.last_signal      = "none",
                   !.prev_accept_time = NoTime]
    ELSE s

\* AdvanceWave starting the settle from the peak on the side of the direction
AdvanceWave_SameSide(s, d, current_time) ==
    IF ~s.idle_returning /\ s.cycle_active /\ s.cos_speed > 0
    THEN LET a1   == s.cos_angle + s.cos_dir * Travel(s.cos_speed, d)
             a2   == IF a1 <= 0 THEN 0 - a1 ELSE a1
             dir2 == IF a1 <= 0 THEN 1 ELSE s.cos_dir
         IN  IF a2 >= PI
             THEN [s EXCEPT !.cos_angle     = PI,
                            !.cos_dir       = dir2,
                            !.cycle_active  = FALSE,
                            !.settling      = TRUE,
                            !.settle_start  = current_time,
                            !.settle_from_y = s.direction * One]
             ELSE [s EXCEPT !.cos_angle = a2, !.cos_dir = dir2]
    ELSE s

\* advance wave angle (bouncing 0 <-> PI)
AdvanceWave(s, d, current_time) ==
    IF ~s.idle_returning /\ s.cycle_active /\ s.cos_speed > 0
    THEN LET a1   == s.cos_angle + s.cos_dir * Travel(s.cos_speed, d)
             a2   == IF a1 <= 0 THEN 0 - a1 ELSE a1
             dir2 == IF a1 <= 0 THEN 1 ELSE s.cos_dir
         IN  IF a2 >= PI
             THEN [s EXCEPT !.cos_angle     = PI,
                            !.cos_dir       = dir2,
                            !.cycle_active  = FALSE,
                            !.settling      = TRUE,
                            !.settle_start  = current_time,
                            !.settle_from_y = (0 - s.direction) * One]
             ELSE [s EXCEPT !.cos_angle = a2, !.cos_dir = dir2]
    ELSE s

\* AdvanceArrow turning by a fixed 1/60 s of travel per frame, whatever dt
AdvanceArrow_PerFrame(s, d) ==
    IF ~s.idle_returning /\ s.arrow_speed > 0
    THEN [s EXCEPT !.arrow_angle = s.arrow_angle + s.arrow_speed \div 60]
    ELSE s

\* advance arrow angle
AdvanceArrow(s, d) ==
    IF ~s.idle_returning /\ s.arrow_speed > 0
    THEN [s EXCEPT !.arrow_angle = s.arrow_angle + Travel(s.arrow_speed, d)]
    ELSE s

\* IdleWaveY with the sign of the ease slipped: _idle_wave_from * (1 + wave_ease)
IdleWaveY_SignSlip(from, wave_t) ==
    LET wave_frac == Min((wave_t * One) \div IDLE_WAVE_SETTLE, One)
        r         == One - wave_frac
        wave_ease == One - Mul(Mul(r, r), r)
    IN  Mul(from, One + wave_ease)

\* cubic ease-out of the idle wave: _idle_wave_from * (1 - wave_ease)
IdleWaveY(from, wave_t) ==
    LET wave_frac == Min((wave_t * One) \div IDLE_WAVE_SETTLE, One)
        r         == One - wave_frac
        wave_ease == One - Mul(Mul(r, r), r)
    IN  Mul(from, One - wave_ease)

\* IdleReturn whose clean reset forgets to clear ever_had_input
IdleReturn_KeepsInput(s, d) ==
    LET wave_t       == s.idle_wave_t + d
        wave_done    == (wave_t * One) \div IDLE_WAVE_SETTLE >= One
        target_angle == Round(s.arrow_angle, TWO_PI) * TWO_PI
        diff         == target_angle - s.arrow_angle
        step         == Travel(IDLE_RETURN_SPEED, d)
        arrow_done   == Abs(diff) <= step
        angle        == IF arrow_done THEN target_angle
                        ELSE s.arrow_angle + Sign(diff) * step
    IN  IF wave_done /\ arrow_done
        THEN [s EXCEPT !.idle_wave_t    = wave_t,
                       !.idle_returning = FALSE,
                       !.arrow_angle    = 0,
                       !.y_norm         = 0]
        ELSE [s EXCEPT !.idle_wave_t    = wave_t,
                       !.arrow_angle    = angle,
                       !.y_norm         = IdleWaveY(s.idle_wave_from, wave_t)]

\* IdleReturn whose clean reset leaves the arrow at the mark it glided to
IdleReturn_KeepsArrow(s, d) ==
    LET wave_t       == s.idle_wave_t + d
        wave_done    == (wave_t * One) \div IDLE_WAVE_SETTLE >= One
        target_angle == Round(s.arrow_angle, TWO_PI) * TWO_PI
        diff         == target_angle - s.arrow_angle
        step         == Travel(IDLE_RETURN_SPEED, d)
        arrow_done   == Abs(diff) <= step
        angle        == IF arrow_done THEN target_angle
                        ELSE s.arrow_angle + Sign(diff) * step
    IN  IF wave_done /\ arrow_done
        THEN [s EXCEPT !.idle_wave_t    = wave_t,
                       !.idle_returning = FALSE,
                       !.ever_had_input = FALSE,
                       !.arrow_angle    = angle,
                       !.y_norm         = 0]
        ELSE [s EXCEPT !.idle_wave_t    = wave_t,
                       !.arrow_angle    = angle,
                       !.y_norm         = IdleWaveY(s.idle_wave_from, wave_t)]

\* IdleReturn whose clean reset waits for the arrow only
IdleReturn_ArrowOnly(s, d) ==
    LET wave_t       == s.idle_wave_t + d
        target_angle == Round(s.arrow_angle, TWO_PI) * TWO_PI
        diff         == target_angle - s.arrow_angle
        step         == Travel(IDLE_RETURN_SPEED, d)
        arrow_done   == Abs(diff) <= step
        angle        == IF arrow_done THEN target_angle
                        ELSE s.arrow_angle + Sign(diff) * step
    IN  IF arrow_done
        THEN [s EXCEPT !.idle_wave_t    = wave_t,
                       !.idle_returning = FALSE,
                       !.ever_had_input = FALSE,
                       !.arrow_angle    = 0,
                       !.y_norm         = 0]
        ELSE [s EXCEPT !.idle_wave_t    = wave_t,
                       !.arrow_angle    = angle,
                       !.y_norm         = IdleWaveY(s.idle_wave_from, wave_t)]

\* IdleReturn whose arrow always moves a full step, past the mark if it is near
IdleReturn_Overshoot(s, d) ==
    LET wave_t       == s.idle_wave_t + d
        wave_done    == (wave_t * One) \div IDLE_WAVE_SETTLE >= One
        target_angle == Round(s.arrow_angle, TWO_PI) * TWO_PI
        diff         == target_angle - s.arrow_angle
        step         == Travel(IDLE_RETURN_SPEED, d)
        arrow_done   == Abs(diff) <= step
        angle        == s.arrow_angle + Sign(diff) * step
    IN  IF wave_done /\ arrow_done
        THEN [s EXCEPT !.idle_wave_t    = wave_t,
                       !.idle_returning = FALSE,
                       !.ever_had_input = FALSE,
                       !.arrow_angle    = 0,
                       !.y_norm         = 0]
        ELSE [s EXCEPT !.idle_wave_t    = wave_t,
                       !.arrow_angle    = angle,
                       !.y_norm         = IdleWaveY(s.idle_wave_from, wave_t)]

\* idle return: ease wave to 0 and arrow back to the nearest 0-degree mark
IdleReturn(s, d) ==
    LET wave_t       == s.idle_wave_t + d
        wave_done    == (wave_t * One) \div IDLE_WAVE_SETTLE >= One
        target_angle == Round(s.arrow_angle, TWO_PI) * TWO_PI
        diff         == target_angle - s.arrow_angle
        step         == Travel(IDLE_RETURN_SPEED, d)
        arrow_done   == Abs(diff) <= step
        angle        == IF arrow_done THEN target_angle
                        ELSE s.arrow_angle + Sign(diff) * step
    IN  IF wave_done /\ arrow_done
        THEN [s EXCEPT !.idle_wave_t    = wave_t,
                       !.idle_returning = FALSE,
                       !.ever_had_input = FALSE,
                       !.arrow_angle    = 0,
                       !.y_norm         = 0]
        ELSE [s EXCEPT !.idle_wave_t    = wave_t,
                       !.arrow_angle    = angle,
                       !.y_norm         = IdleWaveY(s.idle_wave_from, wave_t)]

\* quadratic ease-out of the settle: settle_from_y * (1 - ease)
SettleY(from, t) ==
    LET frac == Min((t * One) \div SETTLE_DURATION, One)
        r    == One - frac
        ease == One - Mul(r, r)
    IN  Mul(from, One - ease)

\* ComputeY leaving the direction out of the cycling position
ComputeY_NoDirection(s, current_time) ==
    IF ~s.ever_had_input THEN [s EXCEPT !.y_norm = 0]
    ELSE IF s.cycle_active THEN [s EXCEPT !.y_norm = Cos(s.cos_angle)]
    ELSE IF s.settling
    THEN LET t == current_time - s.settle_start
         IN  IF (t * One) \div SETTLE_DURATION >= One
             THEN [s EXCEPT !.settling = FALSE, !.y_norm = 0]
             ELSE [s EXCEPT !.y_norm = SettleY(s.settle_from_y, t)]
    ELSE [s EXCEPT !.y_norm = 0]

\* compute y_norm normally
ComputeY(s, current_time) ==
    IF ~s.ever_had_input THEN [s EXCEPT !.y_norm = 0]
    ELSE IF s.cycle_active THEN [s EXCEPT !.y_norm = s.direction * Cos(s.cos_angle)]
    ELSE IF s.settling
    THEN LET t == current_time - s.settle_start
         IN  IF (t * One) \div SETTLE_DURATION >= One
             THEN [s EXCEPT !.settling = FALSE, !.y_norm = 0]
             ELSE [s EXCEPT !.y_norm = SettleY(s.settle_from_y, t)]
    ELSE [s EXCEPT !.y_norm = 0]

\* SetPhase without the reduction modulo 2 pi
SetPhase_Raw(s) ==
    [s EXCEPT !.display_angle = s.arrow_angle,
              !.phase         = s.arrow_angle]

\* display_angle = arrow_angle % 2 pi; phase = display_angle
SetPhase(s) ==
    [s EXCEPT !.display_angle = s.arrow_angle % TWO_PI,
              !.phase         = s.arrow_angle % TWO_PI]

\* scroll trail: every point moves left by wave_speed * dt, the new point
\* enters at wave_w, and the oldest point leaves once it is left of 0
ScrollTrail(s, d) ==
    LET moved == [i \in 1..Len(s.points) |->
                     <<s.points[i][1] - (WAVE_SPEED * d) \div Second, s.points[i][2]>>]
        grown == Append(moved, <<WAVE_AREA_W, s.y_norm>>)
    IN  [s EXCEPT !.points = IF grown[1][1] < 0 THEN Tail(grown) ELSE grown]

\* IdleTest counting from the time the last input takes effect
IdleTest_FromFireTime(s, current_time) ==
    (current_time - (s.last_input_time + INPUT_DELAY)) > IDLE_RESET_TIME

\* idle = (current_time - self.last_input_time) > IDLE_RESET_TIME
IdleTest(s, current_time) == (current_time - s.last_input_time) > IDLE_RESET_TIME

\* PlayerState.update(dt, current_time, amplitude)
update(s, d, current_time) ==
    LET idle == IdleTest(s, current_time)
        s1   == FireQueued(s, current_time)
        s2   == BeginIdle(s1, idle)
        s3   == AdvanceWave(s2, d, current_time)
        s4   == AdvanceArrow(s3, d)
        s5   == IF s4.idle_returning THEN IdleReturn(s4, d) ELSE ComputeY(s4, current_time)
    IN  ScrollTrail(SetPhase(s5), d)

\* ------------------------------------------------- MuseumSyncGame.update
\* wrapped phase difference |((a - b + pi) % 2 pi) - pi|
PhaseDiff(a, b) == Abs(((a - b + PI) % TWO_PI) - PI)

\* InSync with the activity threshold mistyped as 0.5 Hz
InSync_Threshold(a, b) ==
    /\ Abs(a.frequency - b.frequency) < SYNC_FREQ_TOLERANCE
    /\ PhaseDiff(a.phase, b.phase) < SYNC_PHASE_TOLERANCE
    /\ a.frequency > 10 * ACTIVE_FREQ /\ b.frequency > 10 * ACTIVE_FREQ

InSync(a, b) ==
    /\ Abs(a.frequency - b.frequency) < SYNC_FREQ_TOLERANCE
    /\ PhaseDiff(a.phase, b.phase) < SYNC_PHASE_TOLERANCE
    /\ a.frequency > ACTIVE_FREQ /\ b.frequency > ACTIVE_FREQ

\* SyncStep decaying at the accrual rate instead of twice that rate
SyncStep_SlowDecay(timer, a, b, d) ==
    IF InSync(a, b)
    THEN Min(SYNC_DURATION, timer + d)
    ELSE Max(0, timer - d)

\* SyncStep without the cap at SYNC_DURATION
SyncStep_NoCap(timer, a, b, d) ==
    IF InSync(a, b)
    THEN timer + d
    ELSE Max(0, timer - d * 2)

SyncStep(timer, a, b, d) ==
    IF InSync(a, b)
    THEN Min(SYNC_DURATION, timer + d)
    ELSE Max(0, timer - d * 2)

\* one frame with dt = d in which time.time() returns t: both oscillators,
\* then the sync detection
Tick(d, t) ==
    /\ now' = t
    /\ dt' = d
    /\ p1' = update(p1, d, t)
    /\ p2' = update(p2, d, t)
    /\ sync_timer' = SyncStep(sync_timer, p1', p2', d)
    /\ ticks' = ticks + 1
    /\ op' = "update"
    /\ UNCHANGED <<presses, pressed, plan>>

\* ---------------------------------------------- MuseumSyncGame.on_key_press
\* Press1 handing the W / S key to both players
Press1_Both(sig, t) ==
    /\ now' = t
    /\ p1' = queue_signal(p1, sig, t)
    /\ p2' = queue_signal(p2, sig, t)
    /\ op' = IF sig = p1.last_signal THEN "dup1" ELSE "key1"
    /\ presses' = presses + 1
    /\ pressed' = [pressed EXCEPT ![1] = sig]
    /\ UNCHANGED <<sync_timer, dt, ticks, plan>>

\* W / S (player 1 up / down) pressed when time.time() returns t
Press1(sig, t) ==
    /\ now' = t
    /\ p1' = queue_signal(p1, sig, t)
    /\ op' = IF sig = p1.last_signal THEN "dup1" ELSE "key1"
    /\ presses' = presses + 1
    /\ pressed' = [pressed EXCEPT ![1] = sig]
    /\ UNCHANGED <<p2, sync_timer, dt, ticks, plan>>

\* UP / DOWN (player 2 up / down) pressed when time.time() returns t
Press2(sig, t) ==
    /\ now' = t
    /\ p2' = queue_signal(p2, sig, t)
    /\ op' = IF sig = p2.last_signal THEN "dup2" ELSE "key2"
    /\ presses' = presses + 1
    /\ pressed' = [pressed EXCEPT ![2] = sig]
    /\ UNCHANGED <<p1, sync_timer, dt, ticks, plan>>

\* MuseumSyncGame.__init__: both players, sync_timer = 0.0
Start ==
    /\ p1 = NewPlayer(0)
    /\ p2 = NewPlayer(0)
    /\ sync_timer = 0
    /\ now = 0
    /\ op = "init"
    /\ dt = 0
    /\ ticks = 0
    /\ presses = 0
    /\ pressed = [p \in Players |-> "none"]

\* ------------------------------------------------------ the unscripted run
\* Any frames and any key presses, in any order.
Free == [gap1 |-> 0, gap2 |-> 0, once |-> FALSE, step |-> 0, duet |-> FALSE]

Update ==
    \E f \in Frames :
        /\ ticks < MaxTicks
        /\ Tick(f[1], now + f[2])

KeyP1 ==
    \E sig \in Signals :
        /\ presses < MaxPresses
        /\ ticks < MaxTicks
        /\ Press1(sig, now)

KeyP2 ==
    \E sig \in Signals :
        /\ presses < MaxPresses
        /\ ticks < MaxTicks
        /\ Press2(sig, now)

Init == Start /\ plan = Free

Next == Update \/ KeyP1 \/ KeyP2

Spec == Init /\ [][Next]_vars

\* --------------------------------------------- the run with repeated frames
\* The unscripted run, in which a frame may also be repeated with dt = 0 at
\* the time of the last call.
Still ==
    /\ ticks < MaxTicks
    /\ Tick(0, now)

NextStill == Update \/ KeyP1 \/ KeyP2 \/ Still

SpecStill == Init /\ [][NextStill]_vars

\* ------------------------------------------------------- the twin run
\* Two oscillators constructed at different times (time.time() at
\* construction is kept in last_input_time and settle_start) that are given
\* the same key presses and the same frames from time 5 s on.
ConstructTimes == {0, IDLE_RESET_TIME + Second}

StartTwin ==
    /\ \E c1 \in ConstructTimes, c2 \in ConstructTimes :
          p1 = NewPlayer(c1) /\ p2 = NewPlayer(c2)
    /\ sync_timer = 0
    /\ now = IDLE_RESET_TIME + Second
    /\ op = "init"
    /\ dt = 0
    /\ ticks = 0
    /\ presses = 0
    /\ pressed = [p \in Players |-> "none"]

\* the same key, with the same timestamp, submitted to both oscillators
SubmitBoth(sig, t) ==
    /\ now' = t
    /\ p1' = queue_signal(p1, sig, t)
    /\ p2' = queue_signal(p2, sig, t)
    /\ op' = "both"
    /\ presses' = presses + 1
    /\ pressed' = [p \in Players |-> sig]
    /\ UNCHANGED <<sync_timer, dt, ticks, plan>>

KeyBoth ==
    \E sig \in Signals :
        /\ presses < MaxPresses
        /\ ticks < MaxTicks
        /\ SubmitBoth(sig, now)

InitTwin == StartTwin /\ plan = Free

NextTwin == Update \/ KeyBoth

SpecTwin == InitTwin /\ [][NextTwin]_vars

\* ------------------------------------------- the run with uneven frames
\* The unscripted run with dt equal to the advance of the clock in every
\* frame: an ordinary (slow) frame of 0.5 s, or a frame after a stall of the
\* process of INPUT_DELAY.
UnevenSteps == {10, INPUT_DELAY}

Uneven ==
    \E d \in UnevenSteps :
        /\ ticks < MaxTicks
        /\ Tick(d, now + d)

NextUneven == Uneven \/ KeyP1 \/ KeyP2

SpecUneven == Init /\ [][NextUneven]_vars

\* ------------------------------------- the run with late repeated frames
\* The unscripted run, in which a frame may also come with dt = 0 after the
\* clock has moved on (the scheduler reports no elapsed time, time.time()
\* does), so that a frame with dt = 0 accepts an input.
LateStill ==
    /\ ticks < MaxTicks
    /\ Tick(0, now + INPUT_DELAY + 5)

NextLate == Update \/ KeyP1 \/ KeyP2 \/ LateStill

SpecLate == Init /\ [][NextLate]_vars

\* -------------------------------------------------------- the scripted run
\* The same handlers under a fixed schedule: a frame every plan.step (dt is
\* the time since the last frame), keys pressed alternately UP, DOWN, UP, ...
\* at the gaps gap1, gap2, gap1, ... starting at time 0; only the first key
\* when plan.once; by both players at the same times when plan.duet.
GapPairs == {<<2, 2>>, <<20, 20>>, <<50, 50>>, <<80, 80>>, <<81, 81>>, <<90, 90>>,
             <<99, 99>>, <<20, 60>>, <<20, 90>>}
Steps == {1, 2, 5}

Plans == { [gap1 |-> g[1], gap2 |-> g[2], once |-> o, step |-> st, duet |-> du] :
              g \in GapPairs, o \in BOOLEAN, st \in Steps, du \in BOOLEAN }

\* index of the next scheduled key time, and the player whose key is due
Slot == IF plan.duet THEN presses \div 2 ELSE presses
Due == IF plan.duet /\ presses % 2 = 1 THEN 2 ELSE 1
PressTime(k) == (k \div 2) * (plan.gap1 + plan.gap2) + (k % 2) * plan.gap1
SlotSignal(k) == IF k % 2 = 0 THEN "u" ELSE "d"
Pending == (~plan.once \/ Slot = 0) /\ PressTime(Slot) <= MaxTime
LastFrame == ticks * plan.step
NextFrame == (ticks + 1) * plan.step

ScriptedKey1 ==
    /\ Pending /\ Due = 1
    /\ PressTime(Slot) <= NextFrame
    /\ Press1(SlotSignal(Slot), PressTime(Slot))

ScriptedKey2 ==
    /\ Pending /\ Due = 2
    /\ PressTime(Slot) <= NextFrame
    /\ Press2(SlotSignal(Slot), PressTime(Slot))

ScriptedFrame ==
    /\ NextFrame <= MaxTime
    /\ Pending => PressTime(Slot) >= NextFrame
    /\ Tick(plan.step, NextFrame)

InitScripted == Start /\ plan \in Plans

NextScripted == ScriptedFrame \/ ScriptedKey1 \/ ScriptedKey2

SpecScripted == InitScripted /\ [][NextScripted]_vars

\* ---------------------------------------------------- the sparse-frame run
\* The scripted run with frames that come seldom (the process stalls between
\* them) and keys whose own timestamps fall between the frames, so that one
\* frame accepts several entries and sees gaps of any length.
SparseGaps == {<<1, 99>>, <<10, 10>>, <<50, 50>>, <<99, 99>>, <<100, 100>>, <<110, 110>>,
               <<200, 200>>, <<50, 110>>}
SparseSteps == {20, 60, 120}

SparsePlans == { [gap1 |-> g[1], gap2 |-> g[2], once |-> o, step |-> st, duet |-> du] :
                    g \in SparseGaps, o \in BOOLEAN, st \in SparseSteps, du \in BOOLEAN }

InitSparse == Start /\ plan \in SparsePlans

SpecSparse == InitSparse /\ [][NextScripted]_vars

\* ================================================================ properties
BothPlayers == {p1, p2}

\* sync_label: prog = int((sync_timer / SYNC_DURATION) * 100)
Prog == (sync_timer * 100) \div SYNC_DURATION

\* sync_label.text is "STABLE CONNECTION" (the locked state) if prog >= 100
Locked == Prog >= 100

\* a step that is a key press of player 1 / of player 2 (pressed' holds the key)
IsPress1 == presses' = presses + 1 /\ op' \in {"key1", "dup1"}
IsPress2 == presses' = presses + 1 /\ op' \in {"key2", "dup2"}
IsUpdate == ticks' = ticks + 1

\* C1: after every frame each player's position y_norm lies in [-1, 1],
\* whichever branch (cycling, settling, idle-returning, rest) computed it.
C1_PositionInRange ==
    \A s \in BothPlayers : 0 - One <= s.y_norm /\ s.y_norm <= One

\* C1 witness: player 1 is easing back from a full deflection in an idle
\* return while the timer runs.
C1_Witness ==
    /\ op = "update"
    /\ p1.idle_returning
    /\ Abs(p1.idle_wave_from) = One
    /\ p1.y_norm # 0 /\ Abs(p1.y_norm) < One

\* C3: in every frame the sync timer becomes min(SYNC_DURATION, timer + dt)
\* when the updated oscillators are within the frequency and phase
\* tolerances and both active, and max(0, timer - 2 dt) in every other case.
C3_SyncTimerRule ==
    [][IsUpdate =>
        sync_timer' =
            IF /\ Abs(p1'.frequency - p2'.frequency) < SYNC_FREQ_TOLERANCE
               /\ PhaseDiff(p1'.phase, p2'.phase) < SYNC_PHASE_TOLERANCE
               /\ p1'.frequency > ACTIVE_FREQ
               /\ p2'.frequency > ACTIVE_FREQ
            THEN Min(SYNC_DURATION, sync_timer + dt')
            ELSE Max(0, sync_timer - 2 * dt')]_vars

\* C3 witness: a frame out of sync that left part of an accrued timer.
C3_Witness ==
    /\ op = "update"
    /\ ~InSync(p1, p2)
    /\ 0 < sync_timer /\ sync_timer < SYNC_DURATION

\* C4: the sync timer stays within [0, SYNC_DURATION], so the displayed
\* progress stays within [0, 100] percent.
C4_SyncTimerInRange ==
    /\ 0 <= sync_timer /\ sync_timer <= SYNC_DURATION
    /\ 0 <= Prog /\ Prog <= 100

\* C4 witness: the timer is full after a frame in sync.
C4_Witness ==
    /\ op = "update"
    /\ InSync(p1, p2)
    /\ sync_timer = SYNC_DURATION

\* C10: a key press whose signal equals last_signal changes nothing: not the
\* queue, not last_signal, not last_input_time, no other field of either
\* oscillator, and not the sync timer.
C10_DuplicateIsNoOp ==
    [][/\ (IsPress1 /\ pressed'[1] = p1.last_signal) => (p1' = p1 /\ p2' = p2)
       /\ (IsPress2 /\ pressed'[2] = p2.last_signal) => (p1' = p1 /\ p2' = p2)
       /\ (IsPress1 \/ IsPress2) => sync_timer' = sync_timer]_vars

\* C10 witness: player 1 repeated a key some time after pressing it, with the
\* first press still waiting in the queue.
C10_Witness ==
    /\ op = "dup1"
    /\ p1.signal_queue # <<>>
    /\ now > p1.last_input_time

\* the rest state a completed idle return leaves
Rest(s) ==
    /\ s.y_norm = 0
    /\ s.arrow_angle = 0
    /\ ~s.ever_had_input
    /\ ~s.idle_returning

\* max(IDLE_WAVE_SETTLE, pi / IDLE_RETURN_SPEED), in time units (rounded up)
IdleReturnTime == Max(IDLE_WAVE_SETTLE, (PI * Second) \div IDLE_RETURN_SPEED + 1)

\* what C7 says of one player over one step (s before, s2 after)
C7_Step(s, s2) ==
    \* the return ends in the rest state unless an input was accepted
    /\ (s.idle_returning /\ ~s2.idle_returning /\ s2.signal_queue = s.signal_queue)
           => Rest(s2)
    \* and the rest state lasts until an input is accepted
    /\ (Rest(s) /\ ~s.cycle_active /\ Len(s2.signal_queue) >= Len(s.signal_queue))
           => Rest(s2)

\* C7: an idle return never outlasts max(IDLE_WAVE_SETTLE, pi/IDLE_RETURN_SPEED)
\* of accumulated dt; with no input accepted it ends with position 0,
\* arrow_angle 0, ever_had_input false and idle_returning false, and the
\* oscillator stays so until an input is accepted.
C7_IdleReturnEnds ==
    /\ [](\A s \in BothPlayers : s.idle_returning => s.idle_wave_t < IdleReturnTime)
    /\ [][C7_Step(p1, p1') /\ C7_Step(p2, p2')]_vars

\* C7 witness: player 1 is at rest after a completed idle return, and the
\* last frame came after the one that completed it (before the last frame
\* the accumulated idle dt was already past the limit).
C7_Witness ==
    /\ op = "update"
    /\ Rest(p1)
    /\ p1.idle_wave_t - dt >= IdleReturnTime
    /\ p1.signal_queue = <<>>

\* C8 (as claimed): a key queued while the oscillator is idle-returning has
\* cancelled the idle return by the end of the next frame, and the
\* oscillator did not go on to the soft reset.
C8_InputCancelsIdleReturn ==
    [][(IsUpdate /\ p1.idle_returning /\ p1.signal_queue # <<>>)
          => (~p1'.idle_returning /\ p1'.ever_had_input)]_vars

\* an update step of one player (s before, s2 after) that accepted an input
Accepted(s, s2) == Len(s2.signal_queue) < Len(s.signal_queue)

\* what the amended C8 says of one player over one step
C8_Step(s, s2, isPress) ==
    \* queueing a key leaves the idle return running
    /\ isPress => s2.idle_returning = s.idle_returning
    \* an idle return ends by the soft reset or by an accepted input
    /\ (IsUpdate /\ s.idle_returning /\ ~s2.idle_returning)
           => (Rest(s2) \/ Accepted(s, s2))
    \* the accepted input makes the oscillator active again, unless the
    \* player has by then been idle for IDLE_RESET_TIME once more
    /\ (IsUpdate /\ s.idle_returning /\ Accepted(s, s2) /\ ~IdleTest(s, now'))
           => (~s2.idle_returning /\ s2.ever_had_input /\ (s2.cycle_active \/ s2.settling))

\* C8 (amended): a key queued while the oscillator is idle-returning does
\* not cancel the idle return when it is pressed; the idle return runs on
\* until the soft reset or until a queued key is accepted (INPUT_DELAY after
\* its press), and only that acceptance makes the oscillator active again.
C8_AcceptedInputCancelsIdleReturn ==
    [][C8_Step(p1, p1', IsPress1) /\ C8_Step(p2, p2', IsPress2)]_vars

\* C8 witness: player 1 is cycling after an idle return that an accepted key
\* cut short (its accumulated idle dt is short of IDLE_WAVE_SETTLE).
C8_Witness ==
    /\ op = "update"
    /\ p1.cycle_active /\ ~p1.idle_returning
    /\ 0 < p1.idle_wave_t /\ p1.idle_wave_t < IDLE_WAVE_SETTLE

\* a key was pressed and an idle return began after it: only the entry to
\* the idle return clears last_signal
IdleBeganSincePress(s, key) == key # "none" /\ s.last_signal = "none"

\* C9 (as claimed): a key press that repeats the player's previous key leaves
\* the player's queue as it was, however long ago the previous press was.
C9_RepeatNeverQueued ==
    [][/\ (IsPress1 /\ pressed'[1] = pressed[1]) => p1'.signal_queue = p1.signal_queue
       /\ (IsPress2 /\ pressed'[2] = pressed[2]) => p2'.signal_queue = p2.signal_queue]_vars

\* C9 (amended): a key press that repeats the player's previous key leaves the
\* player's queue as it was, unless an idle return began between the two.
C9_RepeatNotQueued ==
    [][/\ (IsPress1 /\ pressed'[1] = pressed[1] /\ ~IdleBeganSincePress(p1, pressed[1]))
            => p1'.signal_queue = p1.signal_queue
       /\ (IsPress2 /\ pressed'[2] = pressed[2] /\ ~IdleBeganSincePress(p2, pressed[2]))
            => p2'.signal_queue = p2.signal_queue]_vars

\* C9 witness: player 2 repeated its key after the first press was accepted
\* and nothing was queued.
C9_Witness ==
    /\ op = "dup2"
    /\ p2.ever_had_input
    /\ ~p2.idle_returning
    /\ p2.signal_queue = <<>>

\* ------------------------------------------------ claims on scripted runs
\* x rounded up to a frame time of the plan
FrameAtOrAfter(x) == ((x + plan.step - 1) \div plan.step) * plan.step

BothActive == p1.frequency > ACTIVE_FREQ /\ p2.frequency > ACTIVE_FREQ

\* the first frame at or after the fire time of the second key; with
\* gap1 <= IDLE_RESET_TIME it is the first frame in which both frequencies
\* of a duet exceed 0.05 (C2_SyncWithinDuration checks that it is)
ActiveAt == FrameAtOrAfter(plan.gap1 + INPUT_DELAY)

\* C2 (as claimed): both players pressing the same alternating keys at the
\* same times: SYNC_DURATION after the first frame with both frequencies
\* above 0.05 the phases agree and the timer has reached SYNC_DURATION (it
\* accrues dt per frame, so it can have done so only in the last two frames
\* and has lost at most one frame's decay since).
C2_SyncAlways ==
    (/\ plan.duet /\ ~plan.once
     /\ plan.gap1 <= IDLE_RESET_TIME
     /\ LastFrame = ActiveAt + SYNC_DURATION)
        => /\ PhaseDiff(p1.phase, p2.phase) = 0
           /\ sync_timer >= SYNC_DURATION - 2 * plan.step

\* C2 (amended): the same, for keys that keep coming at most IDLE_RESET_TIME
\* apart: from the first frame with both frequencies above 0.05 on, the
\* phases agree and the timer is the dt accumulated since (that frame
\* included), capped at SYNC_DURATION.
C2_SyncWithinDuration ==
    (/\ plan.duet /\ ~plan.once
     /\ plan.gap1 <= IDLE_RESET_TIME /\ plan.gap2 <= IDLE_RESET_TIME)
        => /\ LastFrame < ActiveAt => (~BothActive /\ sync_timer = 0)
           /\ LastFrame >= ActiveAt =>
                 /\ BothActive
                 /\ PhaseDiff(p1.phase, p2.phase) = 0
                 /\ sync_timer = Min(SYNC_DURATION, LastFrame - ActiveAt + plan.step)

\* C2 witness: a duet at uneven gaps whose timer has just become full.
C2_Witness ==
    /\ plan.duet /\ ~plan.once
    /\ plan.gap1 # plan.gap2 /\ plan.gap2 <= IDLE_RESET_TIME
    /\ op = "update"
    /\ sync_timer = SYNC_DURATION
    /\ LastFrame = ActiveAt + SYNC_DURATION - plan.step

\* frequency is 1 / (2 g), to the precision of the model (1 mHz)
HasFrequency(s, g) ==
    /\ s.frequency * (2 * g) <= One * Second
    /\ One * Second < (s.frequency + 1) * (2 * g)

Steady == ~plan.once /\ plan.gap1 = plan.gap2

\* C5 (as claimed): keys at a steady gap g, 0.05 s < g < 5.0 s: once three
\* keys have taken effect the frequency is 1 / (2 g) at every frame.
C5_SteadyFrequencyAnyGap ==
    (/\ Steady
     /\ GAP_MIN < plan.gap1 /\ plan.gap1 < GAP_MAX
     /\ LastFrame >= INPUT_DELAY + 2 * plan.gap1)
        => HasFrequency(p1, plan.gap1)

\* C5 (amended): keys at a steady gap g, 0.05 s < g <= IDLE_RESET_TIME: from
\* the first frame at or after the fire time of the second key on, the
\* frequency is 1 / (2 g) at every frame.
C5_SteadyFrequency ==
    (/\ Steady
     /\ GAP_MIN < plan.gap1 /\ plan.gap1 <= IDLE_RESET_TIME
     /\ LastFrame >= INPUT_DELAY + plan.gap1)
        => HasFrequency(p1, plan.gap1)

\* C5 witness: a solo player at the longest such gap, after three keys took
\* effect.
C5_Witness ==
    /\ Steady /\ ~plan.duet
    /\ plan.gap1 = IDLE_RESET_TIME
    /\ op = "update"
    /\ LastFrame >= INPUT_DELAY + 2 * plan.gap1
    /\ p1.frequency > 0
    /\ HasFrequency(p1, plan.gap1)

\* what the idle scenario says with the idle return due `due` after the key
IdleStartsAfter(due) ==
    (plan.once /\ ticks >= 1)
        => /\ LastFrame <= due => ~p1.idle_returning
           /\ (LastFrame - plan.step <= due /\ due < LastFrame) => p1.idle_returning

\* C6 (as claimed): one UP at t = 0 and nothing else: idle_returning is false
\* at every frame up to INPUT_DELAY + IDLE_RESET_TIME and true at the first
\* frame after it.
C6_IdleAfterDelayAndReset == IdleStartsAfter(INPUT_DELAY + IDLE_RESET_TIME)

\* C6 (amended): one UP at t = 0 and nothing else: idle_returning is false
\* at every frame up to IDLE_RESET_TIME and true at the first frame after it
\* (the idle time counts from the key press, not from its fire time).
C6_IdleAfterReset == IdleStartsAfter(IDLE_RESET_TIME)

\* C6 witness: the first frame after IDLE_RESET_TIME, idle return begun.
C6_Witness ==
    /\ plan.once
    /\ op = "update"
    /\ LastFrame - plan.step <= IDLE_RESET_TIME /\ IDLE_RESET_TIME < LastFrame
    /\ p1.idle_returning
    /\ p1.idle_wave_t = plan.step

\* ------------------------------------------- further claims on any run
\* the motion state of an oscillator: everything but the input bookkeeping
\* (last_signal, last_input_time, signal_queue)
Motion(s) ==
    <<s.y_norm, s.arrow_angle, s.half_period, s.frequency, s.direction,
      s.cycle_active, s.prev_accept_time, s.cos_angle, s.cos_dir, s.cos_speed,
      s.settling, s.settle_start, s.settle_from_y, s.ever_had_input, s.phase,
      s.arrow_speed, s.display_angle, s.idle_returning, s.idle_wave_from,
      s.idle_wave_t>>

\* what C11 says of one player's key press `key` at time t (s before, s2 after)
C11_Step(s, s2, key, t) ==
    key # s.last_signal =>
        /\ s2.last_signal = key
        /\ s2.last_input_time = t
        /\ Len(s2.signal_queue) = Len(s.signal_queue) + 1
        /\ SubSeq(s2.signal_queue, 1, Len(s.signal_queue)) = s.signal_queue
        /\ s2.signal_queue[Len(s2.signal_queue)] =
               <<t + INPUT_DELAY, IF key = "u" THEN 1 ELSE 0 - 1>>
        /\ Motion(s2) = Motion(s)

\* C11: a key press at time now whose signal differs from last_signal sets
\* last_signal to it and last_input_time to now, and appends exactly one entry
\* (now + INPUT_DELAY, +1 for UP / -1 for DOWN) at the tail of the queue; the
\* entries already queued and the motion state stay as they were.
C11_SubmitEffect ==
    [][/\ IsPress1 => C11_Step(p1, p1', pressed'[1], now')
       /\ IsPress2 => C11_Step(p2, p2', pressed'[2], now')]_vars

\* C11 witness: player 1 queued a key behind one still waiting, while its
\* wave and arrow were in motion.
C11_Witness ==
    /\ op = "key1"
    /\ Len(p1.signal_queue) >= 2
    /\ p1.arrow_angle > 0 /\ p1.y_norm # 0 /\ p1.cycle_active

C12_Step(s, s2, isPress) ==
    \* a key press leaves ever_had_input as it was
    /\ isPress => s2.ever_had_input = s.ever_had_input
    \* only a frame that accepts a queued entry sets it
    /\ (IsUpdate /\ ~s.ever_had_input /\ s2.ever_had_input) => Accepted(s, s2)
    \* and such a frame does set it (a frame that comes so late that it also
    \* begins an idle return may complete the return and clear it again)
    /\ (IsUpdate /\ Accepted(s, s2) /\ ~IdleTest(s, now')) => s2.ever_had_input

Ordered(q) == \A i \in 1..Len(q) : \A j \in i..Len(q) : q[i][1] <= q[j][1]

\* the number of entries of q whose fire time has come at time t
DueCount(q, t) == Cardinality({i \in 1..Len(q) : q[i][1] <= t})

\* what C13 says of one player over a frame at time t (s before, s2 after)
C13_Step(s, s2, t) ==
    LET k == DueCount(s.signal_queue, t)
    IN  \* the entries that were due are gone, the others are untouched
        /\ s2.signal_queue = SubSeq(s.signal_queue, k + 1, Len(s.signal_queue))
        /\ \A i \in 1..Len(s2.signal_queue) : s2.signal_queue[i][1] > t
        \* the due entries were accepted oldest first: the oscillator holds
        \* the direction and the fire time of the last of them
        /\ k > 0 =>
              /\ s2.direction = s.signal_queue[k][2]
              /\ s2.prev_accept_time \in {s.signal_queue[k][1], NoTime}
              /\ s2.prev_accept_time = NoTime => IdleTest(s, t)
        /\ k = 0 => s2.direction = s.direction

\* C13: with the clock never running backwards, the queue is always ordered
\* by fire time; a frame at time now accepts, oldest first, exactly the
\* entries whose fire time is <= now, so each entry is accepted once, in the
\* first frame at or after its fire time, and the entries with a later fire
\* time stay in the queue untouched.
C13_QueueDrain ==
    /\ [](\A s \in BothPlayers : Ordered(s.signal_queue))
    /\ [][IsUpdate => (C13_Step(p1, p1', now') /\ C13_Step(p2, p2', now'))]_vars

\* C13 witness: the last frame accepted an entry of player 1 exactly at its
\* fire time and left a later one in the queue.
C13_Witness ==
    /\ op = "update"
    /\ p1.signal_queue # <<>>
    /\ p1.prev_accept_time = now
    /\ Head(p1.signal_queue)[1] > now

\* the frame at time t runs the idle-return branch for s: it accepts an
\* entry (which cancels a running return) or not, and the idle test of the
\* frame begins a return or a return is already running
ReturningInFrame(s, t) ==
    IF DueCount(s.signal_queue, t) > 0 THEN IdleTest(s, t)
    ELSE s.idle_returning \/ (IdleTest(s, t) /\ s.ever_had_input)

\* what C16 says of one player over a frame (dt d, time t; s before, s2 after)
C16_Step(s, s2, d, t) ==
    \* not idle-returning: the arrow advances by arrow_speed * dt
    /\ ~ReturningInFrame(s, t) =>
          /\ s2.arrow_angle = s.arrow_angle + (s2.arrow_speed * d) \div Second
          /\ s2.arrow_angle >= s.arrow_angle
    \* a change beyond max(arrow_speed, IDLE_RETURN_SPEED) * dt is the reset
    \* to 0 that completes an idle return
    /\ Abs(s2.arrow_angle - s.arrow_angle) * Second
            > Max(s2.arrow_speed, IDLE_RETURN_SPEED) * d
          => /\ ReturningInFrame(s, t)
             /\ ~s2.idle_returning /\ ~s2.ever_had_input
             /\ s2.arrow_angle = 0

C18_Independent ==
    [][/\ IsPress1 => p2' = p2
       /\ IsPress2 => p1' = p1
       /\ IsUpdate => /\ p1' = update(p1, dt', now')
                      /\ p2' = update(p2, dt', now')]_vars

\* C18 witness: player 1 has pressed keys and is cycling at a measured
\* frequency after several frames, while player 2, who pressed nothing, is
\* as constructed apart from its trail.
C18_Witness ==
    /\ op = "update"
    /\ p1.cycle_active /\ p1.frequency > 0 /\ p1.arrow_angle > 0
    /\ pressed[2] = "none"
    /\ [p2 EXCEPT !.points = <<>>] = NewPlayer(0)
    /\ Len(p2.points) >= 2

\* C19: after every frame display_angle is arrow_angle mod 2 pi, within
\* [0, 2 pi), and phase equals display_angle; a key press keeps it so.
C19_DisplayAngle ==
    \A s \in BothPlayers :
        /\ 0 <= s.display_angle /\ s.display_angle < TWO_PI
        /\ \E n \in 0..(s.arrow_angle \div TWO_PI) :
               s.arrow_angle = n * TWO_PI + s.display_angle
        /\ s.phase = s.display_angle

\* C19 witness: player 1's arrow is past a full turn and a key was pressed
\* since the frame that reduced it.
C19_Witness ==
    /\ op = "key1"
    /\ p1.arrow_angle > TWO_PI
    /\ p1.display_angle > 0
    /\ p1.display_angle < p1.arrow_angle

\* C20: in every reachable state the frequency is 0 or 1 / (2 half_period)
\* of the current half_period, never a value left from an earlier one.
C20_FrequencyMatchesPeriod ==
    \A s \in BothPlayers : s.frequency = 0 \/ HasFrequency(s, s.half_period)

\* C20 witness: player 1 has a measured half_period and the frequency that
\* goes with it; player 2 measured one too and then began an idle return,
\* which left its frequency 0.
C20_Witness ==
    /\ op = "update"
    /\ p1.half_period # Second /\ p1.frequency > 0
    /\ HasFrequency(p1, p1.half_period)
    /\ p2.half_period # Second /\ p2.frequency = 0 /\ p2.idle_returning

\* ------------------------------------- claims on runs with repeated frames
\* C17 (as claimed): a frame with dt = 0 leaves the whole state as it was:
\* every field of both oscillators, the trail included, and the sync timer.
C17_ZeroDtChangesNothing ==
    [][(IsUpdate /\ dt' = 0) => (p1' = p1 /\ p2' = p2 /\ sync_timer' = sync_timer)]_vars

\* what the amended C17 says of one player over a frame with dt = 0 at the
\* time of the last call
C17_Step(s, s2) ==
    \* every field but the trail is as it was
    /\ [s2 EXCEPT !.points = s.points] = s
    \* the trail has the new point (wave_w, position), its other points have
    \* not moved, and at most its oldest point is gone
    /\ LET grown == Append(s.points, <<WAVE_AREA_W, s.y_norm>>)
       IN  s2.points \in {grown, Tail(grown)}

\* C17 (amended): a frame with dt = 0 at the time of the last call (frame or
\* key press) leaves every field of both oscillators other than the trail,
\* and the sync timer, as they were; the trail gains the point
\* (wave_w, current position) with every such frame.
C17_ZeroDtKeepsOscillator ==
    [][(IsUpdate /\ dt' = 0 /\ now' = now)
          => (C17_Step(p1, p1') /\ C17_Step(p2, p2') /\ sync_timer' = sync_timer)]_vars

\* C17 witness: a frame with dt = 0 ran while player 1 was cycling with its
\* arrow turned and left a second trail point at the same place.
C17_Witness ==
    /\ op = "update" /\ dt = 0
    /\ p1.cycle_active /\ p1.arrow_angle > 0 /\ p1.y_norm # 0
    /\ p1.signal_queue # <<>>
    /\ Len(p1.points) >= 2
    /\ p1.points[Len(p1.points)] = p1.points[Len(p1.points) - 1]

\* ------------------------------------------ claims on sparse-frame runs
\* The gap rule applied to the entries i..k of the queue q, oldest first,
\* from the previous accept time P: the resulting half_period, and the gap
\* the frequency was last derived from (0: the frequency was not touched).
RECURSIVE GapRule(_, _, _, _, _, _)
GapRule(q, i, k, P, hp, g) ==
    IF i > k THEN [half_period |-> hp, gap |-> g]
    ELSE LET F         == q[i][1]
             plausible == P # NoTime /\ GAP_MIN < F - P /\ F - P < GAP_MAX
         IN  IF plausible THEN GapRule(q, i + 1, k, F, F - P, F - P)
             ELSE GapRule(q, i + 1, k, F, hp, g)

\* what C14 says of one player over a frame at time t (s before, s2 after)
C14_Step(s, s2, t) ==
    LET k == DueCount(s.signal_queue, t)
        r == GapRule(s.signal_queue, 1, k, s.prev_accept_time, s.half_period, 0)
    IN  k > 0 =>
          /\ s2.half_period = r.half_period
          \* a frame that also begins an idle return zeroes the frequency
          \* after the entries are accepted
          /\ ~IdleTest(s, t) =>
                IF r.gap = 0 THEN s2.frequency = s.frequency
                ELSE HasFrequency(s2, r.gap)

\* C14: when an entry with fire time F is accepted and the previous accept
\* time P is set with 0.05 < F - P < 5.0, half_period becomes F - P and
\* frequency 1 / (2 (F - P)); when P is not set or the gap is outside the
\* open interval, half_period and frequency keep their values.
C14_GapRule ==
    [][IsUpdate => (C14_Step(p1, p1', now') /\ C14_Step(p2, p2', now'))]_vars

\* C14 witness: keys 5.5 s apart and a frame every 6 s: the second frame
\* accepted the second key with the first accept time still set and the
\* gap, not below 5.0 s, was rejected.
C14_Witness ==
    /\ op = "update"
    /\ ~plan.once /\ plan.gap1 >= GAP_MAX /\ plan.step > plan.gap1
    /\ ticks = 2
    /\ p1.prev_accept_time = INPUT_DELAY + plan.gap1
    /\ p1.ever_had_input /\ ~p1.idle_returning
    /\ p1.half_period = Second /\ p1.frequency = 0

\* what C15 says of one player over a step that ends at time t
C15_Step(s, s2, t) ==
    LET k == DueCount(s.signal_queue, t)
        r == GapRule(s.signal_queue, 1, k, s.prev_accept_time, s.half_period, 0)
    IN  s2.half_period # s.half_period => (IsUpdate /\ k > 0 /\ r.gap # 0)

\* C15: half_period changes only in a frame that accepts an entry with a
\* plausible gap: a key press, a frame that accepts nothing, an acceptance
\* with a gap <= 0.05 s or >= 5.0 s or with no previous accept time, the
\* entry to an idle return and the soft reset all leave it as it was.
C15_HalfPeriodFrame ==
    [][C15_Step(p1, p1', now') /\ C15_Step(p2, p2', now')]_vars

\* C15 witness: keys at gaps of 2.5 s and 5.5 s and a frame every 3 s: the
\* third key was accepted 5.5 s after the second, alone in its frame, and
\* half_period is still the 2.5 s of the first two.
C15_Witness ==
    /\ op = "update"
    /\ ~plan.once /\ plan.gap1 < IDLE_RESET_TIME /\ plan.gap2 >= GAP_MAX
    /\ p1.prev_accept_time = INPUT_DELAY + plan.gap1 + plan.gap2
    /\ p1.signal_queue # <<>>
    /\ ~p1.idle_returning
    /\ p1.half_period = plan.gap1 /\ p1.frequency > 0


\* ------------------------------------------------ claims on the rest state
\* what C21 says of one player in a state
AtZero(s) == s.frequency = 0 /\ s.y_norm = 0 /\ s.arrow_angle = 0

\* C21: whenever ever_had_input is false (a fresh oscillator, or one after
\* a soft reset and before the next accepted input) frequency, position and
\* arrow_angle are 0, and over further frames they stay 0 and ever_had_input
\* stays false until a frame accepts an input.
C21_RestIsZero ==
    /\ [](\A s \in BothPlayers : ~s.ever_had_input => AtZero(s))
    /\ [][/\ (~p1.ever_had_input /\ ~Accepted(p1, p1'))
               => (~p1'.ever_had_input /\ AtZero(p1'))
          /\ (~p2.ever_had_input /\ ~Accepted(p2, p2'))
               => (~p2'.ever_had_input /\ AtZero(p2'))]_vars

\* C21 witness: player 1 measured a half_period, moved its wave, idled
\* and was soft-reset.
C21_Witness ==
    /\ op = "update"
    /\ ~p1.ever_had_input /\ ~p1.idle_returning
    /\ p1.half_period # Second
    /\ p1.idle_wave_t >= IDLE_WAVE_SETTLE
    /\ Len(p1.points) >= 2 /\ p1.points[Len(p1.points) - 1][2] # 0
    /\ AtZero(p1)

\* C22: whenever the oscillator is cycling (cycle_active, not idle-returning)
\* its position is direction * cos(bounce angle) of the current bounce angle.
C22_PositionFromBounce ==
    \A s \in BothPlayers :
        (s.cycle_active /\ ~s.idle_returning)
            => s.y_norm = s.direction * Cos(s.cos_angle)

\* C22 witness: player 1 is cycling downward, past the first bounce, at a
\* position strictly between the peaks.
C22_Witness ==
    /\ op = "update"
    /\ p1.cycle_active /\ ~p1.idle_returning
    /\ p1.direction = 0 - 1 /\ p1.cos_dir = 1
    /\ p1.y_norm # 0 /\ Abs(p1.y_norm) < One

\* ------------------------------------ further claims on sparse-frame runs
\* C23: no key press and no frame fails: half_period is always positive
\* (1.0 s initially, afterwards only a gap within (0.05 s, 5.0 s)), so
\* pi / half_period and 1 / (2 gap) never divide by zero, and the argument
\* of acos is within [-1, 1].
C23_NoFailure ==
    \A s \in BothPlayers :
        /\ s.half_period > 0
        /\ s.half_period = Second \/ (GAP_MIN < s.half_period /\ s.half_period < GAP_MAX)
        /\ \A direction \in {1, 0 - 1} :
              /\ 0 - One <= Clamp(s.y_norm * direction)
              /\ Clamp(s.y_norm * direction) <= One
              /\ Clamp(s.y_norm * direction) = s.y_norm * direction

\* C23 witness: keys 0.05 s apart: the second input was accepted at a gap
\* that is not above 0.05 s, and half_period is still its initial 1.0 s.
C23_Witness ==
    /\ op = "update"
    /\ ~plan.once /\ plan.gap1 = GAP_MIN
    /\ p1.prev_accept_time = INPUT_DELAY + GAP_MIN
    /\ p1.ever_had_input
    /\ p1.half_period = Second /\ p1.arrow_speed = (PI * Second) \div Second

\* the idle-return entry condition of a frame at time t, taken after the
\* frame's ready inputs have been applied
EntryDue(s, t) ==
    LET k == DueCount(s.signal_queue, t)
    IN  /\ (t - s.last_input_time) > IDLE_RESET_TIME
        /\ s.ever_had_input \/ k > 0
        /\ ~s.idle_returning \/ k > 0

\* what C24 says of one player over a frame (dt d, time t; s before, s2 after)
C24_Step(s, s2, d, t) ==
    \* the frame starts an idle return: the return has run for this frame's
    \* dt, from the position before the frame, and is still running or has
    \* been completed by the same frame
    /\ EntryDue(s, t) =>
          /\ s2.idle_wave_t = d
          /\ s2.last_signal = "none" /\ s2.prev_accept_time = NoTime
          /\ s2.frequency = 0 /\ s2.arrow_speed = 0 /\ s2.cos_speed = 0
          /\ ~s2.cycle_active /\ ~s2.settling
          /\ s2.idle_returning \/ Rest(s2)
    \* the frame starts none: a return that runs was running before, and
    \* the entry left no trace
    /\ ~EntryDue(s, t) =>
          /\ s2.idle_returning => (s.idle_returning /\ s2.idle_wave_t = s.idle_wave_t + d)
          /\ ~s.idle_returning => s2.idle_wave_t = s.idle_wave_t
          /\ s2.idle_wave_from = s.idle_wave_from
          /\ s2.last_signal = s.last_signal

\* what C24 says of one player over a key press
C24_Press(s, s2) ==
    /\ s2.idle_returning = s.idle_returning
    /\ s2.idle_wave_t = s.idle_wave_t
    /\ s2.idle_wave_from = s.idle_wave_from

\* C24: a frame starts an idle return exactly when, after the frame's ready
\* inputs have been applied, now - last_input_time > IDLE_RESET_TIME,
\* ever_had_input is true and idle_returning is false; a key press starts
\* none, and a frame with one of the three conditions false starts none.
C24_IdleEntry ==
    [][/\ IsUpdate => (C24_Step(p1, p1', dt', now') /\ C24_Step(p2, p2', dt', now'))
       /\ ~IsUpdate => (C24_Press(p1, p1') /\ C24_Press(p2, p2'))]_vars

\* C24 witness: the first frame came 6 s after player 1's only key: it
\* accepted the key, started the idle return on the strength of that
\* acceptance and completed it; player 2, idle as long but without input,
\* started none.
C24_Witness ==
    /\ op = "update" /\ ticks = 1
    /\ plan.once /\ ~plan.duet
    /\ now - p1.last_input_time > IDLE_RESET_TIME
    /\ p1.signal_queue = <<>> /\ p1.direction = 1 /\ p1.cos_dir = 0 - 1
    /\ p1.idle_wave_t = dt /\ Rest(p1)
    /\ p2.idle_wave_t = 0 /\ ~p2.idle_returning

\* ---------------------------------------- further claims on scripted runs
\* no input has been accepted since the last entry to an idle return
NothingSinceEntry(s) == s.idle_wave_t > 0 /\ s.prev_accept_time = NoTime

\* what C25 says of one player over a frame at time t (s before, s2 after)
C25_Step(s, s2, t) ==
    LET k == DueCount(s.signal_queue, t)
    IN  \* the entry
        /\ EntryDue(s, t) =>
              /\ s2.idle_wave_from = s.y_norm
              /\ ~s2.cycle_active /\ ~s2.settling
              /\ s2.cos_speed = 0 /\ s2.arrow_speed = 0 /\ s2.frequency = 0
              /\ s2.last_signal = "none" /\ s2.prev_accept_time = NoTime
        \* the first input accepted after it: the rule of the gap takes up
        \* again only with the inputs accepted after that one
        /\ (NothingSinceEntry(s) /\ k > 0) =>
              /\ s2.half_period =
                     GapRule(s.signal_queue, 2, k, s.signal_queue[1][1],
                             s.half_period, 0).half_period
              /\ k = 1 => (s2.half_period = s.half_period /\ s2.frequency = 0)

\* C25: the entry to an idle return takes the position of the previous
\* frame as the ease-from value, makes cycle_active and settling false,
\* cos_speed, arrow_speed and frequency 0 and clears last_signal and
\* prev_accept_time; so the first input accepted after the entry changes
\* neither half_period nor frequency, however far it is from the inputs
\* before the idle period.
C25_EntryClearsGap ==
    [][IsUpdate => (C25_Step(p1, p1', now') /\ C25_Step(p2, p2', now'))]_vars

\* C25 witness: keys 4.5 s apart, a plausible gap: the idle return that
\* began between them cleared the first accept time, and the second key
\* has been accepted with half_period and frequency as they were.
C25_Witness ==
    /\ op = "update"
    /\ ~plan.once
    /\ IDLE_RESET_TIME < plan.gap1 /\ plan.gap1 < GAP_MAX
    /\ p1.prev_accept_time = INPUT_DELAY + plan.gap1
    /\ p1.idle_wave_t > 0 /\ p1.cycle_active
    /\ p1.half_period = Second /\ p1.frequency = 0

\* ------------------------------------------- claims on the idle return
\* distance from the angle a to the nearest multiple of 2 pi
ToMark(a) == Min(a % TWO_PI, TWO_PI - (a % TWO_PI))

\* the two easing schedules of an idle return as a frame (dt d, time t)
\* finds them: the idle dt accumulated with this frame, and whether the
\* arrow is within this frame's reach of its mark
WaveComplete(s, d, t) ==
    (IF EntryDue(s, t) THEN 0 ELSE s.idle_wave_t) + d >= IDLE_WAVE_SETTLE
ArrowComplete(s, d) == ToMark(s.arrow_angle) * Second <= IDLE_RETURN_SPEED * d

\* what C26 says of one player over a frame (dt d, time t; s before, s2 after)
C26_Step(s, s2, d, t) ==
    \* idle-returning with a schedule incomplete: the return goes on
    /\ (ReturningInFrame(s, t) /\ ~(WaveComplete(s, d, t) /\ ArrowComplete(s, d)))
          => (s2.idle_returning /\ s2.ever_had_input)
    \* idle-returning with both complete: the soft reset
    /\ (ReturningInFrame(s, t) /\ WaveComplete(s, d, t) /\ ArrowComplete(s, d))
          => /\ s2.arrow_angle = 0 /\ s2.y_norm = 0
             /\ ~s2.ever_had_input /\ ~s2.idle_returning
    \* no other frame clears ever_had_input
    /\ (~ReturningInFrame(s, t) /\ s.ever_had_input) => s2.ever_had_input

\* C26: the soft reset happens only in a frame of an idle return in which
\* both easing schedules are complete (accumulated idle dt >=
\* IDLE_WAVE_SETTLE, arrow at its mark); while one is incomplete
\* idle_returning stays true; the reset frame sets arrow_angle and position
\* to 0 and ever_had_input and idle_returning to false.
C26_SoftReset ==
    [][/\ IsUpdate => (C26_Step(p1, p1', dt', now') /\ C26_Step(p2, p2', dt', now'))
       /\ ~IsUpdate => (p1'.ever_had_input = p1.ever_had_input
                          /\ p2'.ever_had_input = p2.ever_had_input)]_vars

\* C26 witness: player 1's arrow has glided to a mark that is not 0 and
\* waits there, the wave not having settled yet.
C26_Witness ==
    /\ op = "update"
    /\ p1.idle_returning /\ p1.ever_had_input
    /\ p1.idle_wave_t < IDLE_WAVE_SETTLE
    /\ p1.arrow_angle > 0 /\ p1.arrow_angle % TWO_PI = 0

\* the multiple of 2 pi nearest to the angle a (the even one of two equally
\* near, as round() chooses)
Mark(a) ==
    LET lo == (a \div TWO_PI) * TWO_PI
    IN  IF a - lo < PI THEN lo
        ELSE IF a - lo > PI THEN lo + TWO_PI
        ELSE IF (a \div TWO_PI) % 2 = 0 THEN lo ELSE lo + TWO_PI

\* the arrow goes from a to a2 toward the mark of a by min(speed * dt, what
\* is left), not past it; the mark stays the same and the distance to it
\* shrinks by what the arrow moved
Glides(a, a2, d) ==
    LET reach == (IDLE_RETURN_SPEED * d) \div Second
        move  == Min(reach, ToMark(a))
    IN  /\ a2 = IF Mark(a) >= a THEN a + move ELSE a - move
        /\ Mark(a2) = Mark(a)
        /\ ToMark(a2) = ToMark(a) - move
        /\ ToMark(a) <= PI

\* C27 (as claimed): every frame of an idle return, the last one included,
\* moves arrow_angle toward the nearest multiple of 2 pi by exactly
\* min(IDLE_RETURN_SPEED * dt, remaining distance), with the target
\* unchanged.
C27_GlideEveryFrame ==
    [][IsUpdate =>
         /\ ReturningInFrame(p1, now') => Glides(p1.arrow_angle, p1'.arrow_angle, dt')
         /\ ReturningInFrame(p2, now') => Glides(p2.arrow_angle, p2'.arrow_angle, dt')]_vars

\* what the amended C27 says of one player over a frame of an idle return
C27_Step(s, s2, d) ==
    \* the return goes on: the arrow has glided
    /\ s2.idle_returning => Glides(s.arrow_angle, s2.arrow_angle, d)
    \* the return is complete: the arrow was within reach of its mark and is
    \* now at 0, the same place on the dial
    /\ ~s2.idle_returning =>
          /\ ToMark(s.arrow_angle) * Second <= IDLE_RETURN_SPEED * d
          /\ s2.arrow_angle = 0
          /\ (Mark(s.arrow_angle) - s2.arrow_angle) % TWO_PI = 0

\* C27 (amended): every frame of an idle return but the completing one
\* moves arrow_angle toward the nearest multiple of 2 pi by exactly
\* min(IDLE_RETURN_SPEED * dt, remaining distance) and not past it; the
\* distance to the multiple shrinks by as much, never above pi in all, and
\* the multiple stays the same. The completing frame sets arrow_angle to 0,
\* whichever multiple the arrow glided to.
C27_GlideToMark ==
    [][IsUpdate =>
         /\ ReturningInFrame(p1, now') => C27_Step(p1, p1', dt')
         /\ ReturningInFrame(p2, now') => C27_Step(p2, p2', dt')]_vars

\* C27 witness: player 1's arrow, more than a turn from 0, is gliding up to
\* the next mark and has not reached it.
C27_Witness ==
    /\ op = "update"
    /\ p1.idle_returning
    /\ p1.arrow_angle > TWO_PI
    /\ ToMark(p1.arrow_angle) > 0
    /\ Mark(p1.arrow_angle) > p1.arrow_angle

\* ------------------------------------------------- claims on the speeds
\* speed is pi / half_period, to the precision of the model
IsSpeedOf(speed, half_period) ==
    /\ speed * half_period <= PI * Second
    /\ PI * Second < (speed + 1) * half_period

\* C28: in every state cos_speed equals arrow_speed and both are 0 or
\* pi / half_period; whenever the frequency is not 0 the arrow turns at
\* pi / half_period = 2 pi frequency (one turn per full input cycle); and a
\* frame that accepts an input leaves the arrow speed above 0 (unless the
\* same frame begins an idle return).
C28_Speeds ==
    /\ [](\A s \in BothPlayers :
             /\ s.cos_speed = s.arrow_speed
             /\ s.arrow_speed = 0 \/ IsSpeedOf(s.arrow_speed, s.half_period)
             /\ s.frequency # 0 =>
                   /\ IsSpeedOf(s.arrow_speed, s.half_period)
                   /\ HasFrequency(s, s.half_period)
                   /\ s.arrow_speed > 0)
    /\ [][IsUpdate =>
            /\ (Accepted(p1, p1') /\ ~IdleTest(p1, now')) => p1'.arrow_speed > 0
            /\ (Accepted(p2, p2') /\ ~IdleTest(p2, now')) => p2'.arrow_speed > 0]_vars

\* C28 witness: player 1 turns at the speed of a measured half_period that
\* is shorter than the initial one.
C28_Witness ==
    /\ op = "update"
    /\ p1.frequency > 0
    /\ p1.half_period < Second
    /\ p1.arrow_speed > (PI * Second) \div Second
    /\ p1.cos_speed = p1.arrow_speed

\* ------------------------------ claims on runs with late repeated frames
\* the largest change of Cos over one unit of angle: the precision to which
\* a position determines a bounce angle in the model
CosStep ==
    CHOOSE m \in 0..One :
        /\ \A a \in 1..PI : Cos(a - 1) - Cos(a) <= m
        /\ \E a \in 1..PI : Cos(a - 1) - Cos(a) = m

\* the bounce angle a after travelling tr toward 0: reflected at 0, held at pi
Bounce(a, tr) ==
    LET a1 == a - tr
        a2 == IF a1 <= 0 THEN 0 - a1 ELSE a1
    IN  IF a2 >= PI THEN PI ELSE a2

\* what C29 says of one player over a frame (dt d, time t) that accepts an
\* input and begins no idle return (s before, s2 after)
C29_Step(s, s2, d, t) ==
    LET k         == DueCount(s.signal_queue, t)
        direction == s.signal_queue[k][2]
    IN  (k > 0 /\ ~IdleTest(s, t)) =>
          \* the bounce angle starts where direction * cos(angle) is the
          \* position of the previous frame and moves cos_speed * dt from there
          /\ \E a \in 0..PI :
                /\ Abs(direction * Cos(a) - s.y_norm) <= CosStep
                /\ s2.cos_angle = Bounce(a, (s2.cos_speed * d) \div Second)
          \* with dt = 0 the position is that of the previous frame
          /\ d = 0 => Abs(s2.y_norm - s.y_norm) <= CosStep

\* C29: accepting an input does not by itself move the wave: whatever the
\* position and the direction, the bounce angle is derived anew so that
\* direction * cos(bounce angle) is the position of the previous frame; a
\* frame with dt = 0 that accepts an input leaves the position as it was,
\* and a frame with dt > 0 moves the bounce angle cos_speed * dt from that
\* start (reflected at 0, ending the cycle at pi).
C29_SmoothRestart ==
    [][IsUpdate => (C29_Step(p1, p1', dt', now') /\ C29_Step(p2, p2', dt', now'))]_vars

\* C29 witness: a frame with dt = 0 accepted a DOWN of player 1 while its
\* wave was between the centre and a peak, and the wave is still there.
C29_Witness ==
    /\ op = "update" /\ dt = 0
    /\ p1.prev_accept_time > now - INPUT_DELAY - 5
    /\ p1.cycle_active /\ p1.direction = 0 - 1
    /\ p1.y_norm # 0 /\ Abs(p1.y_norm) < One
    /\ p1.cos_angle # PI \div 2

\* --------------------------------------------------- the end of a cycle
Toward0(y, y2) ==
    /\ y >= 0 => (0 <= y2 /\ y2 <= y)
    /\ y <= 0 => (y <= y2 /\ y2 <= 0)

\* a settle starts only with the cycle ended at pi, from the peak opposite
\* to the direction; a cycle still active has its bounce angle short of pi
C30_Start(s, s2, t) ==
    /\ s2.cycle_active => s2.cos_angle < PI
    /\ (s2.settling /\ ~s.settling) =>
          /\ ~s2.cycle_active
          /\ s2.cos_angle = PI
          /\ s2.settle_start = t
          /\ s2.settle_from_y = (0 - s2.direction) * One
          /\ s2.y_norm = (0 - s2.direction) * One

\* a settle under way, over a frame at time t that accepts no input
C30_Settle(s, s2, t) ==
    IF t - s.settle_start >= SETTLE_DURATION
    THEN s2.y_norm = 0 /\ ~s2.settling
    ELSE s2.settling /\ Toward0(s.y_norm, s2.y_norm)

C30_AsStated(s, s2, t) ==
    /\ C30_Start(s, s2, t)
    /\ (s.settling /\ DueCount(s.signal_queue, t) = 0) => C30_Settle(s, s2, t)

C30_Step(s, s2, t) ==
    /\ C30_Start(s, s2, t)
    /\ (s.settling /\ DueCount(s.signal_queue, t) = 0 /\ ~IdleTest(s, t)) =>
          C30_Settle(s, s2, t)
    /\ (s.settling /\ IdleTest(s, t)) =>
          /\ ~s2.settling /\ ~s2.cycle_active
          /\ Toward0(s.y_norm, s2.y_norm)

\* C30 as stated: when the bounce angle reaches pi the cycle ends and a
\* settle starts from position -direction (cycle_active false, settling
\* true); with no newer input accepted the position then moves monotonically
\* toward 0 and is exactly 0 with settling false once SETTLE_DURATION has
\* elapsed; cycle_active and settling are never both true.
C30_SettleEndsAtZero ==
    /\ [](\A s \in BothPlayers : ~(s.cycle_active /\ s.settling))
    /\ [][IsUpdate => (C30_AsStated(p1, p1', now') /\ C30_AsStated(p2, p2', now'))]_vars

\* C30: when the bounce angle reaches pi the cycle ends and a settle starts
\* from position -direction (cycle_active false, settling true); with no
\* newer input accepted and no idle return begun, the position then moves
\* monotonically toward 0 and is exactly 0 with settling false at the first
\* frame SETTLE_DURATION or more after the start of the settle; an idle
\* return that begins during the settle clears settling at once and the
\* position keeps moving toward 0 from where the settle left it;
\* cycle_active and settling are never both true.
C30_SettleOrIdle ==
    /\ [](\A s \in BothPlayers : ~(s.cycle_active /\ s.settling))
    /\ [][IsUpdate => (C30_Step(p1, p1', now') /\ C30_Step(p2, p2', now'))]_vars

\* C30 witness: player 1's settle started more than SETTLE_DURATION ago, no
\* newer input was accepted, no idle return began, and the wave is at rest
\* on the centre line with its bounce angle at pi.
C30_Witness ==
    /\ op = "update"
    /\ p1.ever_had_input /\ ~p1.idle_returning
    /\ ~p1.cycle_active /\ ~p1.settling
    /\ p1.cos_angle = PI /\ p1.y_norm = 0
    /\ now - p1.settle_start >= SETTLE_DURATION
    /\ p1.prev_accept_time # NoTime => p1.prev_accept_time <= p1.settle_start

\* ------------------------------------------------------- the locked state
\* C31: after every frame the locked state ("STABLE CONNECTION") is shown if
\* and only if sync_timer = SYNC_DURATION; the lock is not latched: one frame
\* with dt > 0 in which the sync condition fails leaves the locked state.
C31_LockNotLatched ==
    /\ [](Locked <=> sync_timer = SYNC_DURATION)
    /\ [][(IsUpdate /\ dt' > 0 /\ ~InSync(p1', p2')) => ~Locked']_vars

\* C31 witness: the frame before this one left the game locked; in this
\* frame the sync condition failed and the timer fell 2 dt below
\* SYNC_DURATION, so the locked state is gone.
C31_Witness ==
    /\ op = "update" /\ dt > 0
    /\ ~InSync(p1, p2)
    /\ sync_timer = SYNC_DURATION - 2 * dt
    /\ ~Locked

\* ------------------------------------------- the queue at the idle entry
\* what C32 says of one player over a frame at time t (s before, s2 after)
C32_Step(s, s2, t) == EntryDue(s, t) => s2.signal_queue = <<>>

\* C32: with timestamps that never decrease the delay queue is empty when an
\* idle return begins: every entry has fire time <= last_input_time +
\* INPUT_DELAY, which is before the time of the frame that begins the
\* return, so it was accepted in that frame or before.
C32_EmptyAtIdleEntry ==
    /\ [](\A s \in BothPlayers : \A i \in 1..Len(s.signal_queue) :
              s.signal_queue[i][1] <= s.last_input_time + INPUT_DELAY)
    /\ [][IsUpdate => (C32_Step(p1, p1', now') /\ C32_Step(p2, p2', now'))]_vars

\* C32 witness: the first frame came 6 s after the game began and after
\* the UP of player 1: it accepted the UP and began the idle return, which
\* cleared last_signal (and, the frame being that long, also ended).
C32_Witness ==
    /\ op = "update" /\ ticks = 1 /\ now > IDLE_RESET_TIME
    /\ presses >= 1 /\ p1.last_input_time = 0
    /\ p1.last_signal = "none" /\ p1.cos_dir = 0 - 1
    /\ p1.signal_queue = <<>>

\* ------------------------------------------------ directions in the queue
\* C33: in every reachable state any two adjacent entries of a player's
\* delay queue have opposite directions, although the entry to an idle
\* return clears last_signal.
C33_QueueAlternates ==
    \A s \in BothPlayers : \A i \in 1..(Len(s.signal_queue) - 1) :
        s.signal_queue[i][2] = 0 - s.signal_queue[i + 1][2]

\* C33 witness: player 1's UP took effect, an idle return began and
\* cleared last_signal, and during the return the player pressed UP again
\* and then DOWN: both are queued.
C33_Witness ==
    /\ p1.idle_returning /\ p1.ever_had_input /\ p1.direction = 1
    /\ Len(p1.signal_queue) = 2
    /\ p1.signal_queue[1][2] = 1 /\ p1.signal_queue[2][2] = 0 - 1
    /\ p1.last_signal = "d"

\* ------------------------------------------------ during the idle return
\* C34: in every reachable state in which idle_returning is true,
\* ever_had_input is true, frequency, cos_speed and arrow_speed are 0 and
\* cycle_active and settling are false.
C34_ReturningState ==
    \A s \in BothPlayers :
        s.idle_returning =>
            /\ s.ever_had_input
            /\ s.frequency = 0 /\ s.cos_speed = 0 /\ s.arrow_speed = 0
            /\ ~s.cycle_active /\ ~s.settling

\* C34 witness: player 1 is in an idle return that began while its wave
\* was off the centre line and its arrow turned, with a frequency measured
\* before (half_period is not the initial 1.0 s), and a new key is queued.
C34_Witness ==
    /\ p1.idle_returning
    /\ p1.idle_wave_from # 0 /\ p1.arrow_angle # 0
    /\ p1.half_period # Second
    /\ p1.signal_queue # <<>>

\* ------------------------------------------- the sync timer and idleness
Absent(s) == s.idle_returning \/ ~s.ever_had_input

\* C35: sync_timer never increases in a frame after whose oscillator
\* updates either player is in an idle return or has ever_had_input false:
\* in such a frame it goes down by 2 dt, not below 0.
C35_NoAccrualWhenAbsent ==
    [][(IsUpdate /\ (Absent(p1') \/ Absent(p2')))
          => (/\ sync_timer' = Max(0, sync_timer - 2 * dt')
              /\ sync_timer' <= sync_timer)]_vars

\* C35 witness: the two players had been in sync; in this frame player 1
\* is in an idle return and the timer, on its way down, is still above 0.
C35_Witness ==
    /\ op = "update" /\ dt > 0
    /\ p1.idle_returning /\ p1.half_period # Second
    /\ p2.half_period = p1.half_period
    /\ sync_timer > 0 /\ sync_timer <= SYNC_DURATION - 2 * dt

\* ------------------------------------------------ the range of frequency
\* C36: in every reachable state a frequency other than 0 lies strictly
\* between 0.1 Hz and 10 Hz (it is 1 / (2 gap) of a gap strictly between
\* 0.05 s and 5.0 s), so the test frequency > 0.05 of the sync detection
\* is the test frequency # 0, for both players.
C36_FrequencyRange ==
    \A s \in BothPlayers :
        /\ s.frequency # 0 =>
              (One \div 10 < s.frequency /\ s.frequency < 10 * One)
        /\ s.frequency > ACTIVE_FREQ <=> s.frequency # 0

\* C36 witness: player 1's frequency was measured from a gap of 4.95 s,
\* the longest gap of the runs below 5.0 s.
C36_Witness ==
    /\ p1.half_period = GAP_MAX - 1
    /\ p1.frequency # 0 /\ p1.frequency < One \div 10 + 2
    /\ p1.cycle_active

\* --------------------------------------- long pauses between two keys
\* the time between the key press whose entry has fire time F and the key
\* press before it, in a scripted run (0 for the first key press)
SubmitGap(F) ==
    LET T == F - INPUT_DELAY
    IN  IF T = 0 THEN 0
        ELSE IF T % (plan.gap1 + plan.gap2) = 0 THEN plan.gap2 ELSE plan.gap1

\* what C37 says of one player over a frame at time t (s before, s2 after)
C37_Step(s, s2, t) ==
    LET k == DueCount(s.signal_queue, t)
    IN  (/\ k > 0
         /\ \A i \in 1..k :
                SubmitGap(s.signal_queue[i][1]) > IDLE_RESET_TIME + plan.step)
            => (s2.half_period = s.half_period /\ s2.frequency = s.frequency)

\* C37: with a frame every step s < INPUT_DELAY, a key pressed more than
\* IDLE_RESET_TIME + s after the key before it never updates half_period
\* or frequency (the entry to the idle return has cleared the previous
\* accept time before it is accepted); so half_period never exceeds
\* IDLE_RESET_TIME + s, although gaps up to 5.0 s are plausible.
C37_LongPauseNotMeasured ==
    /\ [](plan.step < INPUT_DELAY =>
              \A s \in BothPlayers : s.half_period <= IDLE_RESET_TIME + plan.step)
    /\ [][(IsUpdate /\ plan.step < INPUT_DELAY)
              => (C37_Step(p1, p1', now') /\ C37_Step(p2, p2', now'))]_vars

\* C37 witness: keys at gaps of 1.0 s and 4.5 s, a frame every 0.25 s: the
\* third key, 4.5 s after the second, has been accepted, and half_period is
\* still the 1.0 s measured between the first two.
C37_Witness ==
    /\ op = "update"
    /\ plan.step < INPUT_DELAY /\ ~plan.once
    /\ plan.gap1 < IDLE_RESET_TIME /\ plan.gap2 > IDLE_RESET_TIME + plan.step
    /\ plan.gap2 < GAP_MAX
    /\ p1.prev_accept_time = INPUT_DELAY + plan.gap1 + plan.gap2
    /\ p1.half_period = plan.gap1 /\ p1.frequency = 0
    /\ p1.cycle_active

\* ------------------------------------------ how an idle return ends
\* the longest time between two frames that leaves a frame between the end
\* of the wave's return and the fire time of a key pressed during the return
FrameSlack == INPUT_DELAY - IDLE_WAVE_SETTLE

\* an idle return of s ended by the soft reset in the frame that led to s2
EndsBySoftReset(s, s2) ==
    (s.idle_returning /\ ~s2.idle_returning) => (~s2.ever_had_input /\ AtZero(s2))

C38_AsStated(s, s2) ==
    s.idle_returning => (~Accepted(s, s2) /\ EndsBySoftReset(s, s2))

C38_Step(s, s2, d) ==
    /\ (s.idle_returning /\ Accepted(s, s2)) => d > FrameSlack
    /\ (s.idle_returning /\ ~Accepted(s, s2)) => EndsBySoftReset(s, s2)

\* C38 as stated: with the default constants and dt equal to the advance of
\* the clock in every frame, an idle return always ends by the soft reset
\* and never by an accepted input: no queued input is accepted while
\* idle_returning is true.
C38_NeverEndedByInput ==
    [][IsUpdate => (C38_AsStated(p1, p1') /\ C38_AsStated(p2, p2'))]_vars

\* C38: with the default constants and dt equal to the advance of the clock
\* in every frame, a queued input is accepted while idle_returning is true
\* only by a frame that comes more than INPUT_DELAY - IDLE_WAVE_SETTLE
\* (0.8 s) after the frame before it; an idle return that no accepted input
\* ends, ends by the soft reset.
C38_EndedByInputAfterStall ==
    [][IsUpdate => (C38_Step(p1, p1', dt') /\ C38_Step(p2, p2', dt'))]_vars

\* C38 witness: player 1's idle return had run for 0.5 s when a frame that
\* came 2 s later accepted the DOWN pressed during the return: the return
\* is over and the player has an input again.
C38_Witness ==
    /\ op = "update" /\ dt > FrameSlack
    /\ p1.idle_wave_t > 0 /\ p1.idle_wave_t < IDLE_WAVE_SETTLE
    /\ ~p1.idle_returning /\ p1.ever_had_input
    /\ p1.prev_accept_time = now
    /\ p1.direction = 0 - 1

\* ------------------------------------------------------------ determinism
\* C39: the oscillator is deterministic in its inputs: two oscillators given
\* the same key presses (direction and timestamp) and the same frames
\* (dt, now) have the same direction, half_period, frequency, position,
\* arrow_angle, phase and flags after every step, whatever the time at which
\* each was constructed.
C39_Deterministic ==
    /\ p1.direction = p2.direction
    /\ p1.half_period = p2.half_period
    /\ p1.frequency = p2.frequency
    /\ p1.y_norm = p2.y_norm
    /\ p1.arrow_angle = p2.arrow_angle
    /\ p1.phase = p2.phase
    /\ p1.cycle_active = p2.cycle_active
    /\ p1.settling = p2.settling
    /\ p1.ever_had_input = p2.ever_had_input
    /\ p1.idle_returning = p2.idle_returning

\* C39 witness: two oscillators constructed 5 s apart (settle_start still
\* holds the two times) are in the idle return that followed their first
\* input, with the arrow turned.
C39_Witness ==
    /\ op = "update"
    /\ p1.settle_start # p2.settle_start
    /\ p1.idle_returning /\ p1.arrow_angle # 0
    /\ presses >= 2

====
